---- MODULE Spec2Model ----
(***************************************************************************)
(* GeneratedCodeBasicInfo: the pass that classifies the basic blocks of a  *)
(* translated function (runOnFunction) and the backward search that        *)
(* recovers the program counter an instruction belongs to (getPC).         *)
(*                                                                         *)
(* A function is a sequence of basic blocks; block b is F[b].  A block is  *)
(* a record [type, insts, preds]: the tag getType reads, the instruction   *)
(* list, and the predecessor list in the order predecessors() enumerates   *)
(* it.  An instruction is a record [callee, arg0, arg1]; a call to newpc   *)
(* carries the address in arg0 and the size in arg1.  A pointer to a block *)
(* is its index, a pointer to an instruction is <<block, index>>, and      *)
(* nullptr is NULL.  A failed assert terminates the process ("fatal").     *)
(***************************************************************************)
EXTENDS Integers, Sequences, FiniteSets, TLC

VARIABLES
  F,              \* the function under analysis (blocks met so far, in order)
  InputArchMD,    \* shape of the revamb.input.architecture record
  Dispatcher,     \* pass field: the dispatcher block, or NULL
  AnyPC,          \* pass field: the anypc block, or NULL
  UnexpectedPC,   \* pass field: the unexpectedpc block, or NULL
  JumpTargets,    \* pass field: map from address to block
  rpc,            \* position of runOnFunction
  gpc,            \* position of getPC
  TheInstruction, \* getPC argument
  NewPCCall,      \* getPC local: the marker recorded so far, or NULL
  Visited,        \* getPC local: set of blocks already enqueued
  WorkList,       \* getPC local: queue of reverse iterators <<block, index>>
  Result,         \* value returned by the last getPC call
  Pushed,         \* history: blocks whose cursor was pushed, in push order
  Scanned,        \* history: instructions the scan loop has examined
  Previous        \* history: result of the preceding call if on the same point

vars == <<F, InputArchMD, Dispatcher, AnyPC, UnexpectedPC, JumpTargets, rpc,
          gpc, TheInstruction, NewPCCall, Visited, WorkList, Result,
          Pushed, Scanned, Previous>>

passVars == <<Dispatcher, AnyPC, UnexpectedPC, JumpTargets>>
queryVars == <<gpc, TheInstruction, NewPCCall, Visited, WorkList, Result,
               Pushed, Scanned, Previous>>

----------------------------------------------------------------------------
(* Bounds *)

NumBlocks == 5      \* blocks of a function given to runOnFunction
MaxAddr == 2        \* addresses carried by markers are 0..MaxAddr - 1
NumQueryBlocks == 4 \* blocks of a function getPC is queried on
MaxInsts == 2       \* instructions of a block of such a function
MaxEdges == 3       \* edges of such a function
MaxRerunBlocks == 2 \* blocks a second run of runOnFunction may add

----------------------------------------------------------------------------
(* Values *)

NULL == 0            \* nullptr to a block
NoInst == <<0, 0>>   \* nullptr to an instruction
None == <<"none">>
Unknown == <<0, 0>>

BlockTypes == {"UntypedBlock", "DispatcherBlock", "AnyPCBlock",
               "UnexpectedPCBlock", "JumpTargetBlock"}

Other == [callee |-> "other", arg0 |-> 0, arg1 |-> 0]
NewPC(a, s) == [callee |-> "newpc", arg0 |-> a, arg1 |-> s]

IsNewPC(inst) == inst.callee = "newpc"

Block(t, is, ps) == [type |-> t, insts |-> is, preds |-> ps]

getType(BB) == BB.type

----------------------------------------------------------------------------
(* runOnFunction *)

Info(d, a, u, jt, ok) ==
  [Dispatcher |-> d, AnyPC |-> a, UnexpectedPC |-> u, JumpTargets |-> jt,
   ok |-> ok]

SetJumpTarget(jt, a, b) ==
  [x \in DOMAIN jt \cup {a} |-> IF x = a THEN b ELSE jt[x]]

\* VisitBlock with the asserts on an already filled slot compiled out.
VisitBlock_NoDuplicateAssert(info, b, BB) ==
  IF BB.insts = <<>> THEN info
  ELSE CASE getType(BB) = "DispatcherBlock" -> [info EXCEPT !.Dispatcher = b]
         [] getType(BB) = "AnyPCBlock" -> [info EXCEPT !.AnyPC = b]
         [] getType(BB) = "UnexpectedPCBlock" -> [info EXCEPT !.UnexpectedPC = b]
         [] getType(BB) = "JumpTargetBlock" ->
              IF ~IsNewPC(BB.insts[1]) THEN [info EXCEPT !.ok = FALSE]
              ELSE [info EXCEPT !.JumpTargets =
                      SetJumpTarget(info.JumpTargets, BB.insts[1].arg0, b)]
         [] OTHER -> info

\* The body of the loop over the blocks, for block number b with content BB.
VisitBlock(info, b, BB) ==
  IF BB.insts = <<>> THEN info
  ELSE CASE getType(BB) = "DispatcherBlock" ->
              IF info.Dispatcher # NULL THEN [info EXCEPT !.ok = FALSE]
              ELSE [info EXCEPT !.Dispatcher = b]
         [] getType(BB) = "AnyPCBlock" ->
              IF info.AnyPC # NULL THEN [info EXCEPT !.ok = FALSE]
              ELSE [info EXCEPT !.AnyPC = b]
         [] getType(BB) = "UnexpectedPCBlock" ->
              IF info.UnexpectedPC # NULL THEN [info EXCEPT !.ok = FALSE]
              ELSE [info EXCEPT !.UnexpectedPC = b]
         [] getType(BB) = "JumpTargetBlock" ->
              IF ~IsNewPC(BB.insts[1]) THEN [info EXCEPT !.ok = FALSE]
              ELSE [info EXCEPT !.JumpTargets =
                      SetJumpTarget(info.JumpTargets, BB.insts[1].arg0, b)]
         [] OTHER -> info

\* AllSet with the assert reduced to its first conjunct.
AllSet_OnlyDispatcher(info) == info.Dispatcher # NULL

\* The assert that follows the loop.
AllSet(info) ==
  info.Dispatcher # NULL /\ info.AnyPC # NULL /\ info.UnexpectedPC # NULL

\* Shapes of blocks runOnFunction tells apart: it reads the tag and the first
\* instruction of a non-empty block, and nothing of an empty one.
BlockShapes ==
  {Block("UntypedBlock", <<>>, <<>>)}
  \cup {Block(t, <<Other>>, <<>>) : t \in BlockTypes}
  \cup {Block("JumpTargetBlock", <<NewPC(a, 1)>>, <<>>) : a \in 0..MaxAddr - 1}

\* RunOnFunctionEntry with the metadata record taken as well formed.
RunOnFunctionEntry_NoCheck ==
  /\ rpc = "entry"
  /\ rpc' = "loop"
  /\ UNCHANGED <<F, InputArchMD, passVars, queryVars>>

\* The metadata record is read before the loop: getOperand(0) of a record
\* without operands and extract on a record that is not a tuple end the run.
RunOnFunctionEntry ==
  /\ rpc = "entry"
  /\ rpc' = IF InputArchMD = "tuple" THEN "loop" ELSE "fatal"
  /\ UNCHANGED <<F, InputArchMD, passVars, queryVars>>

RunOnFunctionBlock ==
  /\ rpc = "loop"
  /\ Len(F) < NumBlocks
  /\ \E BB \in BlockShapes :
       LET info == VisitBlock(Info(Dispatcher, AnyPC, UnexpectedPC,
                                   JumpTargets, TRUE), Len(F) + 1, BB)
       IN /\ F' = Append(F, BB)
          /\ Dispatcher' = info.Dispatcher
          /\ AnyPC' = info.AnyPC
          /\ UnexpectedPC' = info.UnexpectedPC
          /\ JumpTargets' = info.JumpTargets
          /\ rpc' = IF info.ok THEN "loop" ELSE "fatal"
  /\ UNCHANGED <<InputArchMD, queryVars>>

RunOnFunctionExit ==
  /\ rpc = "loop"
  /\ rpc' = IF AllSet(Info(Dispatcher, AnyPC, UnexpectedPC, JumpTargets, TRUE))
            THEN "done" ELSE "fatal"
  /\ UNCHANGED <<F, InputArchMD, passVars, queryVars>>

QueryIdle ==
  /\ gpc = "idle"
  /\ TheInstruction = NoInst
  /\ NewPCCall = NoInst
  /\ Visited = {}
  /\ WorkList = <<>>
  /\ Result = None
  /\ Pushed = <<>>
  /\ Scanned = {}
  /\ Previous = None

InitClassify ==
  /\ F = <<>>
  /\ InputArchMD \in {"tuple", "missing", "malformed"}
  /\ Dispatcher = NULL
  /\ AnyPC = NULL
  /\ UnexpectedPC = NULL
  /\ JumpTargets = <<>>
  /\ rpc = "entry"
  /\ QueryIdle

NextClassify ==
  \/ RunOnFunctionEntry
  \/ RunOnFunctionBlock
  \/ RunOnFunctionExit

SpecClassify == InitClassify /\ [][NextClassify]_vars

----------------------------------------------------------------------------
(* A second run of runOnFunction on the same pass object *)

\* RunAgainEntry were the fields reset when runOnFunction starts.
RunAgainEntry_ResetsOutput ==
  /\ rpc = "done"
  /\ rpc' = IF InputArchMD = "tuple" THEN "loop2" ELSE "fatal2"
  /\ Dispatcher' = NULL
  /\ AnyPC' = NULL
  /\ UnexpectedPC' = NULL
  /\ JumpTargets' = <<>>
  /\ UNCHANGED <<F, InputArchMD, queryVars>>

\* The pass object is used again after a run that completed: the fields
\* are members of the pass, and runOnFunction assigns none of them before
\* the loop.
RunAgainEntry ==
  /\ rpc = "done"
  /\ rpc' = IF InputArchMD = "tuple" THEN "loop2" ELSE "fatal2"
  /\ UNCHANGED <<F, InputArchMD, passVars, queryVars>>

\* The loop of the second run; the blocks it meets follow those of the first
\* run in F.
RunAgainBlock ==
  /\ rpc = "loop2"
  /\ Len(F) < NumBlocks + MaxRerunBlocks
  /\ \E BB \in BlockShapes :
       LET info == VisitBlock(Info(Dispatcher, AnyPC, UnexpectedPC,
                                   JumpTargets, TRUE), Len(F) + 1, BB)
       IN /\ F' = Append(F, BB)
          /\ Dispatcher' = info.Dispatcher
          /\ AnyPC' = info.AnyPC
          /\ UnexpectedPC' = info.UnexpectedPC
          /\ JumpTargets' = info.JumpTargets
          /\ rpc' = IF info.ok THEN "loop2" ELSE "fatal2"
  /\ UNCHANGED <<InputArchMD, queryVars>>

RunAgainExit ==
  /\ rpc = "loop2"
  /\ rpc' = IF AllSet(Info(Dispatcher, AnyPC, UnexpectedPC, JumpTargets, TRUE))
            THEN "done2" ELSE "fatal2"
  /\ UNCHANGED <<F, InputArchMD, passVars, queryVars>>

NextRerun ==
  \/ RunOnFunctionEntry
  \/ RunOnFunctionBlock
  \/ RunOnFunctionExit
  \/ RunAgainEntry
  \/ RunAgainBlock
  \/ RunAgainExit

SpecRerun == InitClassify /\ [][NextRerun]_vars

----------------------------------------------------------------------------
(* getPC *)

Inst(p) == F[p[1]].insts[p[2]]

\* ScanForNewPC with the end of the scan one instruction too early: the first
\* instruction of the block is never examined.
RECURSIVE ScanForNewPC_StopsEarly(_, _)
ScanForNewPC_StopsEarly(b, i) ==
  IF i <= 1 THEN 0
  ELSE IF IsNewPC(F[b].insts[i]) THEN i
  ELSE ScanForNewPC_StopsEarly(b, i - 1)

\* The scan loop: from reverse iterator <<b, i>> towards rend (index 0), the
\* index of the first call to newpc met, or 0 when the scan reaches rend.
RECURSIVE ScanForNewPC(_, _)
ScanForNewPC(b, i) ==
  IF i = 0 THEN 0
  ELSE IF IsNewPC(F[b].insts[i]) THEN i
  ELSE ScanForNewPC(b, i - 1)

\* Instructions the scan loop dereferences from <<b, i>> until it stops at
\* index j (a match) or at rend (j = 0).
ScanRange(b, i, j) == {<<b, k>> : k \in (IF j = 0 THEN 1 ELSE j)..i}

\* SeedCursor without the special case for the first instruction of a block.
SeedCursor_NoFirstCase(p) == <<p[1], p[2] - 1>>

\* The reverse iterator the search starts from.
SeedCursor(p) ==
  IF p[2] = 1 THEN <<p[1], 1>> ELSE <<p[1], p[2] - 1>>

\* PushPredecessors without the Visited set.
RECURSIVE PushPredecessors_NoVisited(_, _, _)
PushPredecessors_NoVisited(ps, wl, vis) ==
  IF ps = <<>> THEN [WorkList |-> wl, Visited |-> vis]
  ELSE LET P == Head(ps)
       IN IF F[P].insts # <<>>
          THEN PushPredecessors_NoVisited(Tail(ps),
                 Append(wl, <<P, Len(F[P].insts)>>), vis)
          ELSE PushPredecessors_NoVisited(Tail(ps), wl, vis)

\* PushPredecessors without the test for empty predecessors.
RECURSIVE PushPredecessors_PushesEmpty(_, _, _)
PushPredecessors_PushesEmpty(ps, wl, vis) ==
  IF ps = <<>> THEN [WorkList |-> wl, Visited |-> vis]
  ELSE LET P == Head(ps)
       IN IF P \notin vis
          THEN PushPredecessors_PushesEmpty(Tail(ps),
                 Append(wl, <<P, Len(F[P].insts)>>), vis \cup {P})
          ELSE PushPredecessors_PushesEmpty(Tail(ps), wl, vis)

\* The second loop over the predecessors: push rbegin of every non-empty
\* predecessor not yet in Visited, in enumeration order.
RECURSIVE PushPredecessors(_, _, _)
PushPredecessors(ps, wl, vis) ==
  IF ps = <<>> THEN [WorkList |-> wl, Visited |-> vis]
  ELSE LET P == Head(ps)
       IN IF F[P].insts # <<>> /\ P \notin vis
          THEN PushPredecessors(Tail(ps), Append(wl, <<P, Len(F[P].insts)>>),
                                vis \cup {P})
          ELSE PushPredecessors(Tail(ps), wl, vis)

\* ReachesDispatcher looking at the first predecessor only.
ReachesDispatcher_OnlyFirst(b) ==
  F[b].preds # <<>> /\ F[b].preds[1] = Dispatcher

\* The first loop over the predecessors: the assert on the dispatcher.
ReachesDispatcher(b) == \E k \in 1..Len(F[b].preds) : F[b].preds[k] = Dispatcher

\* The instructions of the function.
Points == {p \in (1..Len(F)) \X (1..MaxInsts) : p[2] <= Len(F[p[1]].insts)}

\* GetPCCall with NewPCCall and Visited kept from the preceding call.
GetPCCall_KeepsLocals ==
  /\ rpc = "done"
  /\ gpc \in {"idle", "returned"}
  /\ \E p \in Points :
       /\ TheInstruction' = p
       /\ WorkList' = <<SeedCursor(p)>>
       /\ Pushed' = <<p[1]>>
       /\ Previous' = IF gpc = "returned" /\ p = TheInstruction
                      THEN Result ELSE None
  /\ Scanned' = {}
  /\ Result' = None
  /\ gpc' = "loop"
  /\ UNCHANGED <<F, InputArchMD, passVars, rpc, NewPCCall, Visited>>

\* The entry of getPC: the locals and the first cursor.
GetPCCall ==
  /\ rpc = "done"
  /\ gpc \in {"idle", "returned"}
  /\ \E p \in Points :
       /\ TheInstruction' = p
       /\ WorkList' = <<SeedCursor(p)>>
       /\ Pushed' = <<p[1]>>
       /\ Previous' = IF gpc = "returned" /\ p = TheInstruction
                      THEN Result ELSE None
  /\ NewPCCall' = NoInst
  /\ Visited' = {}
  /\ Scanned' = {}
  /\ Result' = None
  /\ gpc' = "loop"
  /\ UNCHANGED <<F, InputArchMD, passVars, rpc>>

\* One iteration of the while loop.
GetPCIterate ==
  /\ gpc = "loop"
  /\ WorkList # <<>>
  /\ LET I == Head(WorkList)
         BB == I[1]
         m == ScanForNewPC(BB, I[2])
     IN /\ Scanned' = Scanned \cup ScanRange(BB, I[2], m)
        /\ IF m # 0 /\ NewPCCall # NoInst
           THEN \* two distinct newpc lead to the requested instruction
                /\ Result' = Unknown
                /\ gpc' = "returned"
                /\ WorkList' = Tail(WorkList)
                /\ UNCHANGED <<NewPCCall, Visited, Pushed>>
           ELSE IF m # 0
           THEN /\ NewPCCall' = <<BB, m>>
                /\ WorkList' = Tail(WorkList)
                /\ UNCHANGED <<Visited, Pushed, Result, gpc>>
           ELSE IF NewPCCall # NoInst
           THEN /\ WorkList' = Tail(WorkList)
                /\ UNCHANGED <<NewPCCall, Visited, Pushed, Result, gpc>>
           ELSE IF ReachesDispatcher(BB)
           THEN /\ gpc' = "fatal"
                /\ WorkList' = Tail(WorkList)
                /\ UNCHANGED <<NewPCCall, Visited, Pushed, Result>>
           ELSE LET r == PushPredecessors(F[BB].preds, Tail(WorkList), Visited)
                    new == SubSeq(r.WorkList, Len(WorkList), Len(r.WorkList))
                IN /\ WorkList' = r.WorkList
                   /\ Visited' = r.Visited
                   /\ Pushed' = Pushed \o [k \in 1..Len(new) |-> new[k][1]]
                   /\ UNCHANGED <<NewPCCall, Result, gpc>>
  /\ UNCHANGED <<F, InputArchMD, passVars, rpc, TheInstruction, Previous>>

\* GetPCExit were getPC not const: the block of the marker it returns is
\* entered in JumpTargets under the marker's address.
GetPCExit_RecordsTarget ==
  /\ gpc = "loop"
  /\ WorkList = <<>>
  /\ IF NewPCCall = NoInst
     THEN Result' = Unknown /\ gpc' = "returned" /\ JumpTargets' = JumpTargets
     ELSE IF Inst(NewPCCall).arg1 = 0
     THEN Result' = Result /\ gpc' = "fatal" /\ JumpTargets' = JumpTargets
     ELSE /\ Result' = <<Inst(NewPCCall).arg0, Inst(NewPCCall).arg1>>
          /\ gpc' = "returned"
          /\ JumpTargets' = SetJumpTarget(JumpTargets, Inst(NewPCCall).arg0,
                                          NewPCCall[1])
  /\ UNCHANGED <<F, InputArchMD, Dispatcher, AnyPC, UnexpectedPC, rpc,
                 TheInstruction, NewPCCall, Visited, WorkList, Pushed, Scanned,
                 Previous>>

\* GetPCExit with the assert on the size compiled out.
GetPCExit_NoSizeAssert ==
  /\ gpc = "loop"
  /\ WorkList = <<>>
  /\ IF NewPCCall = NoInst
     THEN Result' = Unknown
     ELSE Result' = <<Inst(NewPCCall).arg0, Inst(NewPCCall).arg1>>
  /\ gpc' = "returned"
  /\ UNCHANGED <<F, InputArchMD, passVars, rpc, TheInstruction, NewPCCall,
                 Visited, WorkList, Pushed, Scanned, Previous>>

\* The code after the while loop.
GetPCExit ==
  /\ gpc = "loop"
  /\ WorkList = <<>>
  /\ IF NewPCCall = NoInst
     THEN Result' = Unknown /\ gpc' = "returned"
     ELSE IF Inst(NewPCCall).arg1 = 0
     THEN Result' = Result /\ gpc' = "fatal"
     ELSE /\ Result' = <<Inst(NewPCCall).arg0, Inst(NewPCCall).arg1>>
          /\ gpc' = "returned"
  /\ UNCHANGED <<F, InputArchMD, passVars, rpc, TheInstruction, NewPCCall,
                 Visited, WorkList, Pushed, Scanned, Previous>>

Fatal == <<"fatal">>

\* getPC as a whole, from worklist wl, visited set vis and recorded marker
\* npc, when predecessors(b) enumerates pr[b]: the pair returned, or Fatal
\* when an assert fails.
RECURSIVE Search(_, _, _, _)
Search(pr, wl, vis, npc) ==
  IF wl = <<>>
  THEN IF npc = NoInst THEN Unknown
       ELSE IF Inst(npc).arg1 = 0 THEN Fatal
       ELSE <<Inst(npc).arg0, Inst(npc).arg1>>
  ELSE LET I == Head(wl)
           BB == I[1]
           m == ScanForNewPC(BB, I[2])
       IN IF m # 0 /\ npc # NoInst THEN Unknown
          ELSE IF m # 0 THEN Search(pr, Tail(wl), vis, <<BB, m>>)
          ELSE IF npc # NoInst THEN Search(pr, Tail(wl), vis, npc)
          ELSE IF ReachesDispatcher(BB) THEN Fatal
          ELSE LET r == PushPredecessors(pr[BB], Tail(wl), vis)
               IN Search(pr, r.WorkList, r.Visited, npc)

Outcome(pr, p) == Search(pr, <<SeedCursor(p)>>, {}, NoInst)

----------------------------------------------------------------------------
(* The functions getPC is queried on *)

\* runOnFunction as a whole, on a function given in full.
RECURSIVE VisitBlocks(_, _, _)
VisitBlocks(info, f, b) ==
  IF b > Len(f) \/ ~info.ok THEN info
  ELSE VisitBlocks(VisitBlock(info, b, f[b]), f, b + 1)

Classified(f) == VisitBlocks(Info(NULL, NULL, NULL, <<>>, TRUE), f, 1)

\* The loop over the blocks when the function lists its blocks in the order
\* ord (a permutation of the block numbers); a block keeps its identity.
RECURSIVE VisitInOrder(_, _, _, _)
VisitInOrder(info, f, ord, k) ==
  IF k > Len(f) \/ ~info.ok THEN info
  ELSE VisitInOrder(VisitBlock(info, ord[k], f[ord[k]]), f, ord, k + 1)

\* Block contents: at most MaxInsts instructions, at most one of them a
\* marker (pattern <<n, k>>: n instructions, the k-th a marker, none if
\* k = 0).  The marker of block b carries address b % MaxAddr, and size 1
\* except in the last block, where it is malformed (size 0).
Patterns == {p \in (0..MaxInsts) \X (0..MaxInsts) : p[2] <= p[1]}

MarkerOf(b) == NewPC(b % MaxAddr, IF b = NumQueryBlocks THEN 0 ELSE 1)

Body(b, pat) == [i \in 1..pat[1] |-> IF i = pat[2] THEN MarkerOf(b) ELSE Other]

\* Edges: any block may precede any block but the first, which is the entry
\* of the function.  The predecessors of a block are enumerated in the order
\* the edge list gives them.
Edges == (1..NumQueryBlocks) \X (2..NumQueryBlocks)

RECURSIVE EdgeLists(_)
EdgeLists(n) ==
  IF n = 0 THEN {<<>>}
  ELSE LET S == EdgeLists(n - 1)
       IN S \cup UNION {{Append(l, e) :
                            e \in {x \in Edges : \A i \in 1..n - 1 : l[i] # x}} :
                          l \in {x \in S : Len(x) = n - 1}}

RECURSIVE PredsIn(_, _)
PredsIn(l, b) ==
  IF l = <<>> THEN <<>>
  ELSE IF Head(l)[2] = b THEN <<Head(l)[1]>> \o PredsIn(Tail(l), b)
  ELSE PredsIn(Tail(l), b)

\* The predecessor lists of the graphs with at most n edges.
PredMaps(n) == {[b \in 1..NumQueryBlocks |-> PredsIn(l, b)] : l \in EdgeLists(n)}

\* The first three blocks are the dispatcher, anypc and unexpectedpc; of the
\* others, those that start with a marker are jump targets.
QueryType(b, body) ==
  CASE b = 1 -> "DispatcherBlock"
    [] b = 2 -> "AnyPCBlock"
    [] b = 3 -> "UnexpectedPCBlock"
    [] OTHER -> IF body # <<>> /\ IsNewPC(body[1]) THEN "JumpTargetBlock"
                ELSE "UntypedBlock"

QueryFunction(pat, pr) ==
  [b \in 1..NumQueryBlocks |->
     Block(QueryType(b, Body(b, pat[b])), Body(b, pat[b]), pr[b])]

InitQuery ==
  /\ \E pat \in [1..NumQueryBlocks -> Patterns], pr \in PredMaps(MaxEdges) :
       /\ pat[1] = <<1, 0>>
       /\ F = QueryFunction(pat, pr)
  /\ InputArchMD = "tuple"
  /\ LET info == Classified(F)
     IN /\ info.ok /\ AllSet(info)
        /\ Dispatcher = info.Dispatcher
        /\ AnyPC = info.AnyPC
        /\ UnexpectedPC = info.UnexpectedPC
        /\ JumpTargets = info.JumpTargets
  /\ rpc = "done"
  /\ QueryIdle

NextQuery ==
  \/ GetPCCall
  \/ GetPCIterate
  \/ GetPCExit

SpecQuery == InitQuery /\ [][NextQuery]_vars

----------------------------------------------------------------------------
(* Properties of runOnFunction *)

TypedBlocks(t) == {b \in 1..Len(F) : F[b].insts # <<>> /\ getType(F[b]) = t}

JumpTargetBlocks == {JumpTargets[a] : a \in DOMAIN JumpTargets}

\* C1: when runOnFunction completes, each of Dispatcher, AnyPC and
\* UnexpectedPC is the one and only non-empty block of its type, the three
\* are different blocks, and none of them is a value of JumpTargets.
C1_ExactlyOneOfEachRole ==
  rpc = "done" =>
    /\ TypedBlocks("DispatcherBlock") = {Dispatcher}
    /\ TypedBlocks("AnyPCBlock") = {AnyPC}
    /\ TypedBlocks("UnexpectedPCBlock") = {UnexpectedPC}
    /\ Cardinality({Dispatcher, AnyPC, UnexpectedPC}) = 3
    /\ JumpTargetBlocks \cap {Dispatcher, AnyPC, UnexpectedPC} = {}

C1_Witness ==
  /\ rpc = "done"
  /\ Len(F) = NumBlocks
  /\ JumpTargetBlocks # {}
  /\ Dispatcher > AnyPC

\* C2: when runOnFunction completes, every non-empty JumpTargetBlock is the
\* block JumpTargets gives for the address of its leading newpc call (so no
\* two such blocks share an address).
C2_EveryJumpTargetRetrievable ==
  rpc = "done" =>
    \A b \in TypedBlocks("JumpTargetBlock") :
      /\ F[b].insts[1].arg0 \in DOMAIN JumpTargets
      /\ JumpTargets[F[b].insts[1].arg0] = b

\* C11: when runOnFunction completes, visiting the same blocks in any other
\* order completes too and gives the same Dispatcher, AnyPC, UnexpectedPC and
\* JumpTargets.
C11_OrderIndependent ==
  rpc = "done" =>
    \A ord \in Permutations(1..Len(F)) :
      LET info == VisitInOrder(Info(NULL, NULL, NULL, <<>>, TRUE), F, ord, 1)
      IN /\ info.ok /\ AllSet(info)
         /\ info.Dispatcher = Dispatcher
         /\ info.AnyPC = AnyPC
         /\ info.UnexpectedPC = UnexpectedPC
         /\ info.JumpTargets = JumpTargets

Singletons == {"DispatcherBlock", "AnyPCBlock", "UnexpectedPCBlock"}

Slot(t) ==
  CASE t = "DispatcherBlock" -> Dispatcher
    [] t = "AnyPCBlock" -> AnyPC
    [] t = "UnexpectedPCBlock" -> UnexpectedPC

\* C12: runOnFunction completes only with Dispatcher, AnyPC and UnexpectedPC
\* all set; when the function has no non-empty block of one of the three
\* types, the run ends in a failed assert and never completes.
C12_MissingSingletonIsFatal ==
  /\ rpc = "done" => \A t \in Singletons : Slot(t) # NULL
  /\ (rpc \in {"done", "fatal"} /\ \E t \in Singletons : TypedBlocks(t) = {})
     => rpc = "fatal"

C12_Witness ==
  /\ rpc = "fatal"
  /\ InputArchMD = "tuple"
  /\ Classified(F).ok
  /\ Len(F) = NumBlocks
  /\ Dispatcher # NULL /\ AnyPC # NULL /\ UnexpectedPC = NULL
  /\ \E b \in 1..Len(F) : F[b].insts = <<>>

\* C13: a slot that is set is never assigned again, and visiting a non-empty
\* block of type Dispatcher, AnyPC or UnexpectedPC while the slot of its type
\* is set ends the run in a failed assert.
C13_DuplicateSingletonIsFatal ==
  [][/\ \A t \in Singletons : Slot(t) # NULL => Slot(t)' = Slot(t)
     /\ (rpc = "loop" /\ Len(F') = Len(F) + 1)
        => \A t \in Singletons :
             (/\ F'[Len(F')].insts # <<>>
              /\ getType(F'[Len(F')]) = t
              /\ Slot(t) # NULL)
             => rpc' = "fatal"]_vars

C13_Witness ==
  /\ rpc = "fatal"
  /\ Len(F) >= 3
  /\ F[Len(F)].insts # <<>>
  /\ getType(F[Len(F)]) = "AnyPCBlock"
  /\ AnyPC \notin {NULL, Len(F)}
  /\ getType(F[AnyPC]) = "AnyPCBlock"

----------------------------------------------------------------------------
(* Backward reachability in the graph, stated without the worklist *)

MarkersUpTo(b, i) == {k \in 1..i : IsNewPC(F[b].insts[k])}

Max(S) == CHOOSE x \in S : \A y \in S : y <= x

HasMarker(b) == MarkersUpTo(b, Len(F[b].insts)) # {}

\* The last marker of block b: the first one met when b is entered from its end.
LastMarker(b) == <<b, Max(MarkersUpTo(b, Len(F[b].insts)))>>

PredSet(b) == {F[b].preds[k] : k \in 1..Len(F[b].preds)}

NonEmptyPreds(b) == {x \in PredSet(b) : F[x].insts # <<>>}

\* Blocks entered from their end on some backward path of non-empty blocks
\* that starts from the blocks of S and passes no marker.
RECURSIVE BackwardClosure(_)
BackwardClosure(S) ==
  LET T == S \cup UNION {NonEmptyPreds(x) : x \in {y \in S : ~HasMarker(y)}}
  IN IF T = S THEN S ELSE BackwardClosure(T)

\* A marker lies in the part of its own block the search starts with.
SeedHit(p) == MarkersUpTo(p[1], SeedCursor(p)[2]) # {}

EnteredBlocks(p) ==
  IF SeedHit(p) THEN {} ELSE BackwardClosure(NonEmptyPreds(p[1]))

\* The markers that are the first marker met on some backward path from p.
FirstMarkers(p) ==
  IF SeedHit(p) THEN {<<p[1], Max(MarkersUpTo(p[1], SeedCursor(p)[2]))>>}
  ELSE {LastMarker(x) : x \in {y \in EnteredBlocks(p) : HasMarker(y)}}

\* The dispatcher precedes a block that some backward path from p crosses
\* before any marker.
DispatcherAhead(p) ==
  /\ ~SeedHit(p)
  /\ \/ Dispatcher \in PredSet(p[1])
     \/ \E x \in EnteredBlocks(p) : ~HasMarker(x) /\ Dispatcher \in PredSet(x)

Found(m) == <<Inst(m).arg0, Inst(m).arg1>>

Finished == gpc \in {"returned", "fatal"}

----------------------------------------------------------------------------
(* Properties of getPC *)

\* C3: a query on the instruction that follows the leading newpc(A, S) of
\* its block, S > 0, returns <<A, S>>, whatever the graph around the block.
C3_AfterLeadingMarker ==
  (/\ Finished
   /\ TheInstruction[2] = 2
   /\ IsNewPC(F[TheInstruction[1]].insts[1])
   /\ F[TheInstruction[1]].insts[1].arg1 > 0)
  => /\ gpc = "returned"
     /\ Result = Found(<<TheInstruction[1], 1>>)

C3_Witness ==
  /\ gpc = "returned"
  /\ TheInstruction[2] = 2
  /\ IsNewPC(F[TheInstruction[1]].insts[1])
  /\ Result = Found(<<TheInstruction[1], 1>>)
  /\ Result # Unknown
  /\ Dispatcher \in PredSet(TheInstruction[1])
  /\ TheInstruction[1] \in PredSet(TheInstruction[1])
  /\ \E x \in NonEmptyPreds(TheInstruction[1]) : HasMarker(x)

\* C4: a query returns Unknown whenever two distinct markers are each the
\* first marker on some backward path from the queried instruction.
C4_TwoMarkersGiveUnknown ==
  (gpc = "returned" /\ Cardinality(FirstMarkers(TheInstruction)) >= 2)
  => Result = Unknown

\* C5 as stated: a query returns Unknown whenever no marker is backward
\* reachable from the queried instruction.
C5_NoMarkerGivesUnknown ==
  (Finished /\ FirstMarkers(TheInstruction) = {})
  => (gpc = "returned" /\ Result = Unknown)

\* C5 as amended: when no marker is backward reachable, a query returns
\* Unknown if the dispatcher precedes none of the blocks on the backward paths,
\* and ends in the assert on the dispatcher otherwise.
C5_NoMarkerGivesUnknownOrFatal ==
  (Finished /\ FirstMarkers(TheInstruction) = {})
  => IF DispatcherAhead(TheInstruction)
     THEN gpc = "fatal"
     ELSE gpc = "returned" /\ Result = Unknown

C5_Witness ==
  /\ gpc = "returned"
  /\ FirstMarkers(TheInstruction) = {}
  /\ ~DispatcherAhead(TheInstruction)
  /\ Visited # {}
  /\ \E x \in PredSet(TheInstruction[1]) :
       F[x].insts = <<>> /\ \E y \in PredSet(x) : HasMarker(y)

\* C6: when exactly one marker M is the first marker on the backward paths
\* from the queried instruction and its size is not 0, a query returns M's
\* address and size; the one other outcome is the assert on the dispatcher,
\* and only if the dispatcher precedes a markerless block on those paths.
C6_UniqueMarkerIsFound ==
  (/\ Finished
   /\ Cardinality(FirstMarkers(TheInstruction)) = 1
   /\ \A m \in FirstMarkers(TheInstruction) : Inst(m).arg1 > 0)
  => \/ /\ gpc = "returned"
        /\ \A m \in FirstMarkers(TheInstruction) : Result = Found(m)
     \/ gpc = "fatal" /\ DispatcherAhead(TheInstruction)

C6_Witness ==
  /\ gpc = "returned"
  /\ Cardinality(FirstMarkers(TheInstruction)) = 1
  /\ \A m \in FirstMarkers(TheInstruction) :
       /\ Result = Found(m)
       /\ m[1] # TheInstruction[1]
       /\ m[1] \notin PredSet(TheInstruction[1])
  /\ Cardinality(Visited) >= 2

\* C7: a query on the leading newpc(A, S) of a block, S > 0, returns
\* <<A, S>> after scanning that one instruction, with no predecessor
\* enqueued, also when the dispatcher precedes the block.
C7_LeadingMarkerItself ==
  (/\ gpc # "idle"
   /\ TheInstruction[2] = 1
   /\ IsNewPC(Inst(TheInstruction))
   /\ Inst(TheInstruction).arg1 > 0)
  => /\ Visited = {}
     /\ Pushed = <<TheInstruction[1]>>
     /\ Scanned \subseteq {TheInstruction}
     /\ gpc # "fatal"
     /\ gpc = "returned" => Result = Found(TheInstruction)

C7_Witness ==
  /\ gpc = "returned"
  /\ TheInstruction[2] = 1
  /\ IsNewPC(Inst(TheInstruction))
  /\ Result = Found(TheInstruction)
  /\ Scanned = {TheInstruction}
  /\ Dispatcher \in PredSet(TheInstruction[1])

\* Twice the cursors that may still be pushed, plus the cursors waiting.
Rank == Len(WorkList) + 2 * (Len(F) + 1 - Len(Pushed))

\* C8: every query terminates: each iteration of the while loop either
\* leaves the loop or strictly decreases Rank, which never goes below 0.
C8_QueryTerminates ==
  [][gpc = "loop" => (gpc' # "loop" \/ (Rank' < Rank /\ Rank' >= 0))]_vars

C8_Witness ==
  /\ gpc = "returned"
  /\ \E i, j \in 1..Len(Pushed) : i # j /\ Pushed[i] = Pushed[j]
  /\ \E b \in Visited : b \in PredSet(b)

ScannedMarkers == {p \in Scanned : IsNewPC(Inst(p))}

\* C9: a query that returns, returns <<0, 0>> if it recorded no marker or
\* matched a second one, and otherwise the address and the size of the marker
\* it recorded, a marker of the graph whose size is not 0.
C9_ResultIsUnknownOrFound ==
  gpc = "returned" =>
    IF NewPCCall = NoInst \/ Cardinality(ScannedMarkers) >= 2
    THEN Result = Unknown
    ELSE /\ NewPCCall \in Points
         /\ IsNewPC(Inst(NewPCCall))
         /\ Result = Found(NewPCCall)
         /\ Result[2] > 0
         /\ Result # Unknown

C9_Witness ==
  /\ gpc = "fatal"
  /\ NewPCCall # NoInst
  /\ Inst(NewPCCall).arg1 = 0
  /\ WorkList = <<>>

\* C10: a call on the same instruction as the preceding call ends as the
\* preceding call did, with the same result.
C10_RepeatedQuerySameResult ==
  (Finished /\ Previous # None) => (gpc = "returned" /\ Result = Previous)

C10_Witness ==
  /\ gpc = "returned"
  /\ Previous # None
  /\ Result # Unknown
  /\ Visited # {}

\* The markerless scan of the head cursor with no marker recorded.
HeadUnmatched ==
  /\ gpc = "loop"
  /\ WorkList # <<>>
  /\ NewPCCall = NoInst
  /\ MarkersUpTo(Head(WorkList)[1], Head(WorkList)[2]) = {}

\* C14: when a block is scanned without a match while no marker is recorded
\* and the dispatcher is one of its predecessors, the query ends in a failed
\* assert and returns nothing; the dispatcher is never enqueued as a
\* predecessor.
C14_DispatcherIsFatal ==
  [][/\ (HeadUnmatched /\ Dispatcher \in PredSet(Head(WorkList)[1]))
        => (gpc' = "fatal" /\ Result' = None)
     /\ Dispatcher \notin Visited'
     /\ \A k \in 2..Len(Pushed') : Pushed'[k] # Dispatcher]_vars

C14_Witness ==
  /\ gpc = "fatal"
  /\ NewPCCall = NoInst
  /\ Dispatcher \notin PredSet(TheInstruction[1])
  /\ \E b \in Visited :
       /\ Len(F[b].preds) >= 2
       /\ F[b].preds[1] # Dispatcher
       /\ F[b].preds[2] = Dispatcher

\* C15: no step of a query changes the function, the metadata, Dispatcher,
\* AnyPC, UnexpectedPC or JumpTargets.
C15_QueryIsReadOnly ==
  [][UNCHANGED <<F, InputArchMD, Dispatcher, AnyPC, UnexpectedPC,
                 JumpTargets, rpc>>]_vars

C15_Witness ==
  /\ gpc = "returned"
  /\ Previous # None
  /\ Result # Unknown
  /\ DOMAIN JumpTargets # {}
  /\ Result[1] \in DOMAIN JumpTargets
  /\ JumpTargets[Result[1]] # NewPCCall[1]

\* C17 as stated: in one query no block is pushed twice, the seed included,
\* so at most as many cursors are pushed as the function has blocks.
C17_EachBlockEnqueuedOnce ==
  gpc # "idle" =>
    /\ \A i, j \in 1..Len(Pushed) : i # j => Pushed[i] # Pushed[j]
    /\ Len(Pushed) <= Len(F)

\* C17 as amended: the first cursor pushed is the seed; after it every block
\* is pushed at most once, when it enters Visited; so at most one cursor more
\* than the function has blocks is pushed.
C17_EachBlockEnqueuedOnceAfterSeed ==
  gpc # "idle" =>
    /\ Pushed[1] = TheInstruction[1]
    /\ \A i, j \in 2..Len(Pushed) : i # j => Pushed[i] # Pushed[j]
    /\ {Pushed[k] : k \in 2..Len(Pushed)} = Visited
    /\ Len(Pushed) <= Len(F) + 1

C17_Witness ==
  /\ gpc = "returned"
  /\ TheInstruction[1] \in Visited
  /\ Len(Pushed) = Len(F)
  /\ Cardinality(Visited) = Len(F) - 1

\* The state in which the head of the worklist is the seed cursor.
SeedStep ==
  /\ gpc = "loop"
  /\ WorkList # <<>>
  /\ Len(Pushed) = 1
  /\ Visited = {}
  /\ NewPCCall = NoInst

\* C18 as stated: the scan of the seed cursor never examines the queried
\* instruction, and examines nothing when the queried instruction is the
\* first of its block.
C18_SeedScanSkipsPoint ==
  [][SeedStep =>
       /\ TheInstruction \notin Scanned'
       /\ TheInstruction[2] = 1 => Scanned' = {}]_vars

\* C18 as amended: the scan of the seed cursor starts at the instruction
\* before the queried one and examines instructions before it only; when
\* the queried instruction is the first of its block, the scan examines that
\* instruction and nothing else.
C18_SeedScanStart ==
  [][SeedStep =>
       IF TheInstruction[2] = 1
       THEN Scanned' = {TheInstruction}
       ELSE /\ <<TheInstruction[1], TheInstruction[2] - 1>> \in Scanned'
            /\ \A q \in Scanned' :
                 q[1] = TheInstruction[1] /\ q[2] < TheInstruction[2]]_vars

C18_Witness ==
  /\ gpc = "returned"
  /\ TheInstruction[2] = 1
  /\ ~IsNewPC(Inst(TheInstruction))
  /\ TheInstruction \in Scanned
  /\ TheInstruction[1] \notin Visited
  /\ Visited # {}
  /\ Result # Unknown

\* The marker the scan of the head cursor stops at.
HeadMarker ==
  <<Head(WorkList)[1],
    Max(MarkersUpTo(Head(WorkList)[1], Head(WorkList)[2]))>>

\* C19: a marker the scan stops at was not examined before in the query;
\* when a marker is recorded already it is another instruction, and the step
\* returns <<0, 0>> with the scan stopped at the match, the remaining cursors
\* left on the worklist and nothing pushed.
C19_SecondMarkerReturnsAtOnce ==
  [][(/\ gpc = "loop"
      /\ WorkList # <<>>
      /\ MarkersUpTo(Head(WorkList)[1], Head(WorkList)[2]) # {})
     => /\ HeadMarker \notin Scanned
        /\ NewPCCall # NoInst =>
             /\ HeadMarker # NewPCCall
             /\ gpc' = "returned"
             /\ Result' = Unknown
             /\ Scanned' \ Scanned \subseteq
                  {<<HeadMarker[1], k>> : k \in HeadMarker[2]..Head(WorkList)[2]}
             /\ WorkList' = Tail(WorkList)
             /\ UNCHANGED <<NewPCCall, Visited, Pushed>>]_vars

C19_Witness ==
  /\ gpc = "returned"
  /\ Result = Unknown
  /\ NewPCCall # NoInst
  /\ Cardinality(ScannedMarkers) = 2
  /\ WorkList # <<>>
  /\ \A k \in 1..Len(WorkList) : \A q \in Scanned : q[1] # WorkList[k][1]

\* C20: every cursor on the worklist and every instruction examined belongs
\* to a non-empty block, and every marker matched is the first marker on a
\* backward path of non-empty blocks from the queried instruction.
C20_EmptyBlocksSkipped ==
  gpc # "idle" =>
    /\ \A k \in 1..Len(WorkList) : WorkList[k] \in Points
    /\ \A b \in Visited : F[b].insts # <<>>
    /\ Scanned \subseteq Points
    /\ ScannedMarkers \subseteq FirstMarkers(TheInstruction)
    /\ NewPCCall # NoInst => NewPCCall \in FirstMarkers(TheInstruction)

C20_Witness ==
  /\ gpc = "returned"
  /\ Result # Unknown
  /\ \E b \in Visited \cup {TheInstruction[1]} :
       \E x \in PredSet(b) :
         /\ F[x].insts = <<>>
         /\ \E y \in PredSet(x) :
              HasMarker(y) /\ LastMarker(y) \notin FirstMarkers(TheInstruction)

\* The orders in which the elements of sequence ps can be enumerated.
OrdersOf(ps) ==
  IF ps = <<>> THEN {<<>>}
  ELSE {[k \in 1..Len(ps) |-> ps[q[k]]] : q \in Permutations(1..Len(ps))}

\* The enumeration orders of the predecessors of the blocks 1..n.
RECURSIVE PredOrders(_)
PredOrders(n) ==
  IF n = 0 THEN {<<>>}
  ELSE {Append(pr, ps) : pr \in PredOrders(n - 1), ps \in OrdersOf(F[n].preds)}

Ended == IF gpc = "fatal" THEN Fatal ELSE Result

\* The whole-query operator agrees with the step-by-step query.
OutcomeIsEnded ==
  Finished => Outcome([b \in 1..Len(F) |-> F[b].preds], TheInstruction) = Ended

\* C21: a query ends the same way (the same pair returned, or a failed
\* assert) whatever the order in which the predecessors of each block are
\* enumerated.
C21_PredecessorOrderIrrelevant ==
  Finished =>
    \A pr \in PredOrders(Len(F)) : Outcome(pr, TheInstruction) = Ended

\* C22: a pair other than <<0, 0>> that a query returns is the address and
\* the size of a marker that is the first marker on a backward path of
\* non-empty blocks from the queried instruction; a marker of the queried
\* block that the seed scan does not cover counts only if the block is
\* entered again from its end through a cycle.
C22_FoundIsAFirstMarker ==
  (gpc = "returned" /\ Result # Unknown) =>
    \E m \in FirstMarkers(TheInstruction) :
      /\ Result = Found(m)
      /\ Inst(m).arg1 > 0
      /\ (m[1] = TheInstruction[1] /\ ~SeedHit(TheInstruction))
         => TheInstruction[1] \in EnteredBlocks(TheInstruction)
      /\ m[1] # TheInstruction[1]
         => m[1] \in BackwardClosure(NonEmptyPreds(TheInstruction[1]))

C22_Witness ==
  /\ gpc = "returned"
  /\ Result # Unknown
  /\ NewPCCall[1] = TheInstruction[1]
  /\ NewPCCall[2] > TheInstruction[2]
  /\ Result = Found(NewPCCall)
  /\ \E b \in 1..Len(F) :
       HasMarker(b) /\ LastMarker(b) \notin FirstMarkers(TheInstruction)

\* A step of the second run, or the step that starts it.
SecondRunStep ==
  rpc \in {"done", "loop2"} =>
     /\ \A t \in Singletons : Slot(t)' = Slot(t)
     /\ DOMAIN JumpTargets \subseteq DOMAIN JumpTargets'
     /\ (rpc = "loop2" /\ Len(F') = Len(F) + 1) =>
          LET b == Len(F')
              BB == F'[b]
          IN /\ (BB.insts # <<>> /\ getType(BB) \in Singletons)
                => (rpc' = "fatal2" /\ JumpTargets' = JumpTargets)
             /\ (/\ BB.insts # <<>>
                 /\ getType(BB) = "JumpTargetBlock"
                 /\ IsNewPC(BB.insts[1]))
                => /\ rpc' = "loop2"
                   /\ DOMAIN JumpTargets' =
                        DOMAIN JumpTargets \cup {BB.insts[1].arg0}
                   /\ \A a \in DOMAIN JumpTargets' :
                        JumpTargets'[a] = (IF a = BB.insts[1].arg0 THEN b
                                           ELSE JumpTargets[a])

\* C23: a second run of runOnFunction starts with the fields as the first
\* run left them and never assigns Dispatcher, AnyPC or UnexpectedPC; the
\* first non-empty block of one of the three types it meets ends it in a
\* failed assert; a jump target block it meets before that sets the entry of
\* its address in JumpTargets, new or not, and leaves the other entries.
C23_SecondRunKeepsOutput == [][SecondRunStep]_vars

C23_Witness ==
  /\ rpc = "fatal2"
  /\ Len(F) = NumBlocks + 2
  /\ F[1] = Block("JumpTargetBlock", <<NewPC(0, 1)>>, <<>>)
  /\ F[NumBlocks + 1] = Block("JumpTargetBlock", <<NewPC(0, 1)>>, <<>>)
  /\ F[NumBlocks + 2] = Block("DispatcherBlock", <<Other>>, <<>>)
  /\ JumpTargets[0] = NumBlocks + 1
  /\ Dispatcher \in 2..NumBlocks

====
